---- MODULE Spec2Model ----
(***************************************************************************)
(* Model of bias_analysis (src/app.py), the statistical core of the Bias   *)
(* Detection Dashboard, of the dashboard run that calls it on a freshly    *)
(* read table, and of a direct caller that holds one dataset object and    *)
(* calls the function on it, possibly twice.                               *)
(*                                                                         *)
(* A cell is <<"n", i>> (a number), <<"s", text>> (a string) or NA (a      *)
(* missing cell: an empty field of the file, NaN in the DataFrame).  A     *)
(* DataFrame is an ordered list of column names and, per column,           *)
(* <<dtype, cells>> with the dtype tag "num" (a numeric dtype) or "obj"    *)
(* (object).                                                               *)
(*                                                                         *)
(* A float64 is <<s, hi, lo, e>>: sign s in {-1, 0, 1}, a 53 bit mantissa  *)
(* hi * 2^27 + lo (2^25 <= hi < 2^26, 0 <= lo < 2^27) and an exponent e,   *)
(* standing for s * (hi * 2^27 + lo) * 2^e; zero is <<0, 0, 0, 0>> and NaN *)
(* is <<2, 0, 0, 0>>.  Division and subtraction round to nearest, ties to  *)
(* even, as IEEE 754 does, so that e.g. 0.8 - 0.6 is 0.20000000000000007.  *)
(***************************************************************************)
EXTENDS Integers, Sequences, FiniteSets, TLC

VARIABLES uploaded, df, before, caller, args, result, prev, banner

vars == <<uploaded, df, before, caller, args, result, prev, banner>>

(***************************************************************************)
(* Bounds of the explored datasets.                                        *)
(***************************************************************************)
MaxRows == 2
MaxMajority == 7
MaxMinority == 3

Num(i) == <<"n", i>>
Text(t) == <<"s", t>>
NA == <<"na", 0>>

GroupValues == {Text("A"), Text("B"), NA}
LabelNums == {Num(-1), Num(0), Num(1)}
LabelTexts == {Text("yes"), Text("no"), Text("maybe")}
TextSorted == <<"A", "B", "maybe", "no", "yes">>

(***************************************************************************)
(* float64 arithmetic.                                                     *)
(***************************************************************************)
H == 2 ^ 27
NaN == <<2, 0, 0, 0>>
Zero == <<0, 0, 0, 0>>

IsNaN(x) == x[1] = 2

\* natural numbers below 2^58 as pairs <<hi, lo>> = hi * 2^27 + lo
PDbl(p) == <<2 * p[1] + (2 * p[2]) \div H, (2 * p[2]) % H>>
PHalf(p) == <<p[1] \div 2, (p[2] + (p[1] % 2) * H) \div 2>>
POdd(p) == p[2] % 2 = 1
PGe(p, q) == p[1] > q[1] \/ (p[1] = q[1] /\ p[2] >= q[2])
PAdd(p, q) == <<p[1] + q[1] + (p[2] + q[2]) \div H, (p[2] + q[2]) % H>>
PSub(p, q) ==
    IF p[2] >= q[2] THEN <<p[1] - q[1], p[2] - q[2]>>
    ELSE <<p[1] - q[1] - 1, p[2] + H - q[2]>>
PZero(p) == p[1] = 0 /\ p[2] = 0

\* p shifted right by d bits, the bits shifted out or-ed into the lowest bit kept
RECURSIVE PJam(_, _)
PJam(p, d) ==
    IF d = 0 \/ PZero(p) THEN p
    ELSE IF PGe(<<0, 1>>, p) THEN <<0, 1>>
    ELSE LET h == PHalf(p)
         IN  PJam(IF POdd(p) /\ ~POdd(h) THEN PAdd(h, <<0, 1>>) ELSE h, d - 1)

\* the float64 nearest to s * p * 2^e (ties to even); sticky: the exact value
\* lies strictly above p * 2^e in magnitude, by less than 2^e
RECURSIVE Round(_, _, _, _)
Round(s, p, e, sticky) ==
    IF PZero(p) THEN Zero
    ELSE IF p[1] >= H
    THEN Round(s, PHalf(p), e + 1, sticky \/ POdd(p))
    ELSE IF p[1] >= H \div 2
    THEN LET m == PHalf(p)
             up == POdd(p) /\ (sticky \/ POdd(m))
             r == IF up THEN PAdd(m, <<0, 1>>) ELSE m
         IN  IF r[1] >= H \div 2 THEN <<s, r[1] \div 2, 0, e + 2>>
             ELSE <<s, r[1], r[2], e + 1>>
    ELSE IF p[1] >= H \div 4 THEN <<s, p[1], p[2], e>>
    ELSE IF p[1] = 0 THEN Round(s, <<p[2], 0>>, e - 27, sticky)
    ELSE Round(s, PDbl(p), e - 1, sticky)

\* float(i) of an integer i
FromInt(i) ==
    IF i = 0 THEN Zero
    ELSE Round(IF i < 0 THEN -1 ELSE 1, <<0, IF i < 0 THEN -i ELSE i>>, 0, FALSE)

Neg(x) == IF IsNaN(x) THEN NaN ELSE <<-x[1], x[2], x[3], x[4]>>

\* |x| > |y| for non-zero floats
MagGt(x, y) ==
    \/ x[4] > y[4]
    \/ x[4] = y[4] /\ (x[2] > y[2] \/ (x[2] = y[2] /\ x[3] > y[3]))

\* x > y on floats: false as soon as one side is NaN
Gt(x, y) ==
    /\ ~IsNaN(x)
    /\ ~IsNaN(y)
    /\ \/ x[1] > y[1]
       \/ x[1] = 1 /\ y[1] = 1 /\ MagGt(x, y)
       \/ x[1] = -1 /\ y[1] = -1 /\ MagGt(y, x)

\* x < y on floats
Lt(x, y) == Gt(y, x)

\* x + y for non-zero floats with |x| >= |y|: three guard bits, the rest jammed
AddOrdered(x, y) ==
    LET a == PDbl(PDbl(PDbl(<<x[2], x[3]>>)))
        b == PJam(PDbl(PDbl(PDbl(<<y[2], y[3]>>))), x[4] - y[4])
    IN  IF x[1] = y[1] THEN Round(x[1], PAdd(a, b), x[4] - 3, FALSE)
        ELSE Round(x[1], PSub(a, b), x[4] - 3, FALSE)

\* x + y
Add(x, y) ==
    IF IsNaN(x) \/ IsNaN(y) THEN NaN
    ELSE IF y[1] = 0 THEN x
    ELSE IF x[1] = 0 THEN y
    ELSE IF MagGt(y, x) THEN AddOrdered(y, x)
    ELSE AddOrdered(x, y)

\* x - y
Sub(x, y) == Add(x, Neg(y))

\* one step of the long division by b on <<remainder, quotient>>
QuotStep(st, b) ==
    IF PGe(st[1], b) THEN <<PDbl(PSub(st[1], b)), PAdd(PDbl(st[2]), <<0, 1>>)>>
    ELSE <<PDbl(st[1]), PDbl(st[2])>>

\* n steps of it, stopped when the division comes out even:
\* <<remainder, quotient, steps left>>
RECURSIVE QuotBits(_, _, _)
QuotBits(st, b, n) ==
    IF n = 0 \/ PZero(st[1]) THEN <<st[1], st[2], n>>
    ELSE QuotBits(QuotStep(st, b), b, n - 1)

DivRound(s, qb, e) == Round(s, qb[2], e + qb[3], ~PZero(qb[1]))

\* x / y; the code divides only by a float above 0
Div(x, y) ==
    IF IsNaN(x) \/ IsNaN(y) \/ y[1] = 0 THEN NaN
    ELSE IF x[1] = 0 THEN Zero
    ELSE DivRound(x[1] * y[1],
                  QuotBits(<<<<x[2], x[3]>>, <<0, 0>>>>, <<y[2], y[3]>>, 55),
                  x[4] - y[4] - 54)

\* the float quotient of two integers: n / d
Quotient(n, d) == Div(FromInt(n), FromInt(d))

\* The quotients of the sums and counts of a table of at most MaxCells rows are
\* computed once: Quotients[d][n + 1] is n / d.
MaxCells == IF MaxRows > MaxMajority + MaxMinority THEN MaxRows ELSE MaxMajority + MaxMinority

RECURSIVE QuotientsUpTo(_, _)
QuotientsUpTo(n, d) ==
    IF n < 0 THEN <<>> ELSE Append(QuotientsUpTo(n - 1, d), Quotient(n, d))

RECURSIVE QuotientRows(_)
QuotientRows(d) ==
    IF d = 0 THEN <<>> ELSE Append(QuotientRows(d - 1), QuotientsUpTo(2 * MaxCells, d))

Quotients == QuotientRows(MaxCells)

Magnitude(n, d) ==
    IF n <= 2 * MaxCells /\ d <= MaxCells THEN Quotients[d][n + 1] ELSE Quotient(n, d)

\* n / d for d > 0; the quotient of -n is the negated quotient of n
Ratio(n, d) == IF n < 0 THEN Neg(Magnitude(-n, d)) ELSE Magnitude(n, d)

One == FromInt(1)

(***************************************************************************)
(* The fixed policy thresholds of bias_analysis.                           *)
(***************************************************************************)
REP_THRESHOLD == Ratio(7, 10)
LABEL_THRESHOLD == Ratio(2, 10)
SPD_THRESHOLD == Ratio(1, 10)
DI_THRESHOLD == Ratio(8, 10)


(***************************************************************************)
(* DataFrame and Series primitives used by bias_analysis.  A Series is a   *)
(* sequence of [key, value] entries in index order.                        *)
(***************************************************************************)
Range(s) == {s[i] : i \in 1..Len(s)}

\* a column is <<dtype, cells>>
Dtype(d, name) == d.cols[name][1]

Cells(d, name) == d.cols[name][2]

HasColumn(d, name) == \E i \in 1..Len(d.columns) : d.columns[i] = name

\* len(df)
NRows(d) == IF Len(d.columns) = 0 THEN 0 ELSE Len(Cells(d, d.columns[1]))

\* pd.api.types.is_numeric_dtype(df[name])
IsNumericDtype(d, name) == Dtype(d, name) = "num"

\* distinct non-missing values of a column in order of first appearance
RECURSIVE Uniques(_)
Uniques(col) ==
    IF col = <<>> THEN <<>>
    ELSE LET front == Uniques(SubSeq(col, 1, Len(col) - 1))
             last == col[Len(col)]
         IN  IF last = NA \/ last \in Range(front) THEN front
             ELSE Append(front, last)

IndexOf(s, v) == CHOOSE i \in 1..Len(s) : s[i] = v

\* the order of a sorted index: numbers by value, texts as Python orders strings
KeyLess(a, b) ==
    IF a[1] = "n" THEN a[2] < b[2]
    ELSE IndexOf(TextSorted, a[2]) < IndexOf(TextSorted, b[2])

RECURSIVE SortKeys(_)
SortKeys(S) ==
    IF S = {} THEN <<>>
    ELSE LET least == CHOOSE k \in S : \A o \in S \ {k} : KeyLess(k, o)
         IN  <<least>> \o SortKeys(S \ {least})

Codes(col, u) ==
    [i \in 1..Len(col) |-> IF col[i] = NA THEN Num(-1) ELSE Num(IndexOf(u, col[i]) - 1)]

\* variant: codes by sorted value (factorize(sort=True)) instead of first appearance
Factorize_sorted(col) == Codes(col, SortKeys(Range(col) \ {NA}))

\* pd.factorize(col)[0]: first-seen codes from 0, -1 for a missing cell
Factorize(col) == Codes(col, Uniques(col))

Count(col, v) == Cardinality({i \in 1..Len(col) : col[i] = v})

\* keys by descending count; equal counts keep their order (stable sort)
RECURSIVE SortByCount(_, _)
SortByCount(keys, col) ==
    IF keys = <<>> THEN <<>>
    ELSE LET best == CHOOSE i \in 1..Len(keys) :
                        /\ \A j \in 1..Len(keys) : Count(col, keys[j]) <= Count(col, keys[i])
                        /\ \A j \in 1..(i - 1) : Count(col, keys[j]) < Count(col, keys[i])
             rest == SubSeq(keys, 1, best - 1) \o SubSeq(keys, best + 1, Len(keys))
         IN  <<keys[best]>> \o SortByCount(rest, col)

RECURSIVE Proportions(_, _, _)
Proportions(keys, col, total) ==
    IF keys = <<>> THEN <<>>
    ELSE <<[key |-> Head(keys), value |-> Ratio(Count(col, Head(keys)), total)]>>
             \o Proportions(Tail(keys), col, total)

\* col.value_counts(normalize=True): missing cells dropped, counts over their sum
ValueCountsNormalize(col) ==
    Proportions(SortByCount(Uniques(col), col),
                col,
                Cardinality({i \in 1..Len(col) : col[i] # NA}))

MaxOf(a, b) == IF IsNaN(a) THEN b ELSE IF IsNaN(b) THEN a ELSE IF Gt(b, a) THEN b ELSE a

MinOf(a, b) == IF IsNaN(a) THEN b ELSE IF IsNaN(b) THEN a ELSE IF Lt(b, a) THEN b ELSE a

\* Series.max(): NaN entries skipped, NaN when nothing is left
RECURSIVE SeriesMax(_)
SeriesMax(s) == IF s = <<>> THEN NaN ELSE MaxOf(SeriesMax(Tail(s)), Head(s).value)

\* Series.min(): NaN entries skipped, NaN when nothing is left
RECURSIVE SeriesMin(_)
SeriesMin(s) == IF s = <<>> THEN NaN ELSE MinOf(SeriesMin(Tail(s)), Head(s).value)

\* variant: an idxmax that yields a missing key on an empty Series instead of raising
IdxmaxRaises_never(s) == FALSE

\* Series.idxmax() raises ValueError on an empty Series
IdxmaxRaises(s) == Len(s) = 0

FirstWith(s, m) ==
    s[CHOOSE i \in 1..Len(s) : s[i].value = m /\ \A j \in 1..(i - 1) : s[j].value # m].key

\* Series.idxmax(): the key of the first maximal entry
Idxmax(s) == IF Len(s) = 0 THEN NA ELSE FirstWith(s, SeriesMax(s))

\* sum and count of the non-missing cells of valcol in the rows where keycol is k
RECURSIVE SumWhere(_, _, _)
SumWhere(keycol, valcol, k) ==
    IF keycol = <<>> THEN 0
    ELSE (IF Head(keycol) = k /\ Head(valcol) # NA THEN Head(valcol)[2] ELSE 0)
             + SumWhere(Tail(keycol), Tail(valcol), k)

CountWhere(keycol, valcol, k) ==
    Cardinality({i \in 1..Len(keycol) : keycol[i] = k /\ valcol[i] # NA})

\* the mean of a group: NaN when the group has no non-missing cell
Mean(sum, count) == IF count = 0 THEN NaN ELSE Ratio(sum, count)

RECURSIVE Means(_, _, _)
Means(keys, keycol, valcol) ==
    IF keys = <<>> THEN <<>>
    ELSE <<[key |-> Head(keys),
            value |-> Mean(SumWhere(keycol, valcol, Head(keys)),
                           CountWhere(keycol, valcol, Head(keys)))]>>
             \o Means(Tail(keys), keycol, valcol)

\* df.groupby(keycol)[valcol].mean(): one entry per non-missing key, keys sorted
GroupByMean(keycol, valcol) == Means(SortKeys(Range(keycol) \ {NA}), keycol, valcol)

(***************************************************************************)
(* bias_analysis(df, sensitive, target), statement by statement.           *)
(***************************************************************************)
\* lines 32-33: df[target] = pd.factorize(df[target])[0], on the caller's object
Coerce(d, target) ==
    IF IsNumericDtype(d, target) THEN d
    ELSE [d EXCEPT !.cols[target] = <<"num", Factorize(Cells(d, target))>>]

\* lines 32-36: report["target_encoded"]
TargetEncoded(d, target) == ~IsNumericDtype(d, target)

\* variant: dominant_ratio >= 0.7
RepIssue_inclusive(dominant_ratio) == ~IsNaN(dominant_ratio) /\ ~Lt(dominant_ratio, REP_THRESHOLD)

\* line 45
RepIssue(dominant_ratio) == Gt(dominant_ratio, REP_THRESHOLD)

\* line 50
LabelIssue(diff) == Gt(diff, LABEL_THRESHOLD)

\* line 54, on the extremes of label_dist
Impact(lo, hi) == IF Gt(hi, Zero) THEN Div(lo, hi) ELSE One

\* variant: guard label_dist.max() >= 0 instead of > 0
DisparateImpact_zeroGuard(label_dist) ==
    IF ~Lt(SeriesMax(label_dist), Zero) /\ ~IsNaN(SeriesMax(label_dist))
    THEN Div(SeriesMin(label_dist), SeriesMax(label_dist))
    ELSE One

\* line 54
DisparateImpact(label_dist) == Impact(SeriesMin(label_dist), SeriesMax(label_dist))

\* variant: spd >= 0.1 or di <= 0.8
FairnessIssue_inclusive(spd, di) ==
    \/ (~IsNaN(spd) /\ ~Lt(spd, SPD_THRESHOLD))
    \/ (~IsNaN(di) /\ ~Gt(di, DI_THRESHOLD))

\* variant: spd > 0.1 and di < 0.8
FairnessIssue_and(spd, di) == Gt(spd, SPD_THRESHOLD) /\ Lt(di, DI_THRESHOLD)

\* line 55
FairnessIssue(spd, di) == Gt(spd, SPD_THRESHOLD) \/ Lt(di, DI_THRESHOLD)

B2I(b) == IF b THEN 1 ELSE 0

\* line 57
Issues(rep_issue, label_issue, fairness_issue) ==
    B2I(rep_issue) + B2I(label_issue) + B2I(fairness_issue)

\* variant: red only when all three flags are set
Traffic_redOnlyForAll(issues) ==
    IF issues = 0 THEN "green" ELSE IF issues < 3 THEN "yellow" ELSE "red"

\* line 58
Traffic(issues) ==
    IF issues = 0 THEN "green" ELSE IF issues = 1 THEN "yellow" ELSE "red"

Raise(exc, line, computed) ==
    [kind |-> "error", exc |-> exc, line |-> line, computed |-> computed]

\* lines 57-73: the flags counted and the report filled
Filled(head, rep, label_dist, dominant_group, dominant_ratio, spd, di, flags) ==
    [kind |-> "report",
     target_encoded |-> head[1],
     rows |-> head[2],
     columns |-> head[3],
     rep |-> rep,
     label_dist |-> label_dist,
     rep_issue |-> flags[1],
     label_issue |-> flags[2],
     fairness_issue |-> flags[3],
     traffic |-> Traffic(Issues(flags[1], flags[2], flags[3])),
     dominant_group |-> dominant_group,
     dominant_ratio |-> dominant_ratio,
     spd |-> spd,
     di |-> di]

\* lines 45, 50, 53, 55: the three flags
Flagged(head, rep, label_dist, dominant_group, dominant_ratio, diff, di) ==
    Filled(head, rep, label_dist, dominant_group, dominant_ratio, diff, di,
           <<RepIssue(dominant_ratio), LabelIssue(diff), FairnessIssue(diff, di)>>)

\* lines 43, 44, 49, 54: the statistics of the two Series
Measured(head, rep, label_dist) ==
    Flagged(head, rep, label_dist, Idxmax(rep), SeriesMax(rep),
            Sub(SeriesMax(label_dist), SeriesMin(label_dist)),
            DisparateImpact(label_dist))

\* lines 38-73, on the frame d left by the coercion
Report(d, encoded, sensitive, target) ==
    Measured(<<encoded, NRows(d), Len(d.columns)>>,
             ValueCountsNormalize(Cells(d, sensitive)),
             GroupByMean(Cells(d, sensitive), Cells(d, target)))

\* lines 38-73 on the coerced frame d2: the frame the caller holds afterwards and
\* what the call gave
Analysed(d2, encoded, sensitive, target) ==
    IF ~HasColumn(d2, sensitive)
    THEN [df |-> d2, outcome |-> Raise("KeyError", 42, {"target_encoded", "rows", "columns"})]
    ELSE IF IdxmaxRaises(ValueCountsNormalize(Cells(d2, sensitive)))
    THEN [df |-> d2, outcome |-> Raise("ValueError", 43, {"target_encoded", "rows", "columns"})]
    ELSE [df |-> d2, outcome |-> Report(d2, encoded, sensitive, target)]

\* The whole call.
BiasAnalysis(d, sensitive, target) ==
    IF ~HasColumn(d, target)
    THEN [df |-> d, outcome |-> Raise("KeyError", 32, {})]
    ELSE Analysed(Coerce(d, target), TargetEncoded(d, target), sensitive, target)

\* lines 121-126: the risk banner rendered from a returned report
RiskBanner(traffic) ==
    IF traffic = "green" THEN "LOW RISK"
    ELSE IF traffic = "yellow" THEN "MODERATE RISK"
    ELSE "HIGH RISK"

(***************************************************************************)
(* The uploaded file and pd.read_csv.  A file is a header and, per column, *)
(* the fields of the rows: a numeral Num(i), a text Text(t) or the empty   *)
(* field NA.                                                               *)
(***************************************************************************)
\* the dtype read_csv infers: object for a column without rows or with a text
\* field, a numeric dtype otherwise (float64 when fields are empty)
InferDtype(fields) ==
    IF Len(fields) > 0 /\ \A i \in 1..Len(fields) : fields[i][1] # "s" THEN "num" ELSE "obj"

\* in an object column every non-empty field stays the string it is in the file
AsText(field) == IF field[1] = "n" THEN Text(ToString(field[2])) ELSE field

ParseColumn(fields) ==
    IF InferDtype(fields) = "num" THEN <<"num", fields>>
    ELSE <<"obj", [i \in 1..Len(fields) |-> AsText(fields[i])]>>

\* line 83: df = pd.read_csv(uploaded_file)
ReadCsv(file) ==
    [columns |-> file.header,
     cols |-> [c \in Range(file.header) |-> ParseColumn(file.fields[c])]]

File(groups, labels) ==
    [header |-> <<"group", "label">>, fields |-> [group |-> groups, label |-> labels]]

Rep(v, n) == [i \in 1..n |-> v]

\* every file of at most MaxRows rows: a group column of A, B and empty fields and
\* a label column of numerals and empty fields, or of texts and empty fields
SmallFiles ==
    UNION {{File(g, l) : g \in [1..n -> GroupValues],
                         l \in [1..n -> LabelNums \cup {NA}] \cup [1..n -> LabelTexts \cup {NA}]}
           : n \in 0..MaxRows}

\* two groups with a binary label: nA rows of A (kA of them 1), nB of B (kB of them 1)
TwoGroupFile(nA, kA, nB, kB) ==
    File(Rep(Text("A"), nA) \o Rep(Text("B"), nB),
         Rep(Num(1), kA) \o Rep(Num(0), nA - kA) \o Rep(Num(1), kB) \o Rep(Num(0), nB - kB))

TwoGroupFiles ==
    {TwoGroupFile(c[1], c[2], c[3], c[4]) :
        c \in {q \in (0..MaxMajority) \X (0..MaxMajority) \X (0..MaxMinority) \X (0..MaxMinority) :
                  q[2] <= q[1] /\ q[4] <= q[3]}}

\* the names the select boxes offer
ColumnNames == {"group", "label"}

\* the names a direct caller passes: the columns and one name that is no column
DirectNames == ColumnNames \cup {"gender"}

NoCall == [kind |-> "none"]

NoPrev == [args |-> <<>>, result |-> NoCall]

(***************************************************************************)
(* Two callers of bias_analysis.  The dashboard script runs from the top   *)
(* on every interaction: it reads the uploaded file into a new DataFrame,  *)
(* offers the columns, and with the button pressed calls bias_analysis     *)
(* once and renders the report.  Nothing of a run outlives it but the      *)
(* uploaded file.  The direct caller is any other code that holds the      *)
(* DataFrame read from the file and calls bias_analysis(df, sensitive,     *)
(* target) on it with two different names, up to twice with the same       *)
(* arguments; the function contract is stated for such callers.            *)
(***************************************************************************)
Init ==
    /\ uploaded \in SmallFiles \cup TwoGroupFiles
    /\ df = ReadCsv(uploaded)
    /\ before = df
    /\ caller = "none"
    /\ args = <<>>
    /\ result = NoCall
    /\ prev = NoPrev
    /\ banner = ""

\* what the page shows below "Bias Risk Assessment": nothing when the call raised
Shown(outcome) == IF outcome.kind = "report" THEN RiskBanner(outcome.traffic) ELSE ""

\* the state a call leaves: d0 the frame passed, r what bias_analysis did with it
Deliver(who, d0, a, r, last) ==
    /\ df' = r.df
    /\ before' = d0
    /\ caller' = who
    /\ args' = a
    /\ result' = r.outcome
    /\ prev' = last
    /\ banner' = IF who = "dashboard" THEN Shown(r.outcome) ELSE banner
    /\ UNCHANGED uploaded

\* lines 82-92: a run of the script without the button pressed
Reload ==
    /\ caller \in {"none", "dashboard"}
    /\ df' = ReadCsv(uploaded)
    /\ before' = df'
    /\ caller' = "dashboard"
    /\ args' = <<>>
    /\ result' = NoCall
    /\ prev' = NoPrev
    /\ banner' = ""
    /\ UNCHANGED uploaded

\* lines 82-126: a run with the button pressed, on the frame d0 read in this run
Run(d0, sensitive, target) ==
    /\ HasColumn(d0, sensitive)
    /\ HasColumn(d0, target)
    /\ target # sensitive
    /\ Deliver("dashboard", d0, <<sensitive, target>>, BiasAnalysis(d0, sensitive, target), NoPrev)

RunDashboard(sensitive, target) ==
    /\ caller \in {"none", "dashboard"}
    /\ Run(ReadCsv(uploaded), sensitive, target)

\* lines 28-73: a direct call on the DataFrame the caller holds
Call(sensitive, target) ==
    /\ caller = "none"
    /\ sensitive # target
    /\ Deliver("direct", df, <<sensitive, target>>, BiasAnalysis(df, sensitive, target), NoPrev)

\* lines 28-73: the same call once more on the same object
Repeat ==
    /\ caller = "direct"
    /\ prev.result.kind = "none"
    /\ Deliver("direct", df, args, BiasAnalysis(df, args[1], args[2]),
               [args |-> args, result |-> result])

Next ==
    \/ Reload
    \/ \E sensitive \in ColumnNames, target \in ColumnNames : RunDashboard(sensitive, target)
    \/ \E sensitive \in DirectNames, target \in DirectNames : Call(sensitive, target)
    \/ Repeat

Spec == Init /\ [][Next]_vars

(***************************************************************************)
(* Vocabulary of the properties.                                           *)
(***************************************************************************)
Called == result.kind # "none"
Returned == result.kind = "report"
Failed == result.kind = "error"

\* same cells in every column (a dtype is compared only where there are cells)
SameValues(d1, d2) ==
    /\ d1.columns = d2.columns
    /\ \A i \in 1..Len(d1.columns) :
          LET c == d1.columns[i]
          IN  /\ Len(Cells(d1, c)) = Len(Cells(d2, c))
              /\ \/ Len(Cells(d1, c)) = 0
                 \/ (Dtype(d1, c) = Dtype(d2, c) /\ Cells(d1, c) = Cells(d2, c))

\* the inputs the error taxonomy names, of the last call
InvalidInput ==
    \/ NRows(before) = 0
    \/ ~HasColumn(before, args[1])
    \/ ~HasColumn(before, args[2])
    \/ \A i \in 1..NRows(before) : Cells(before, args[1])[i] = NA

ColumnAbsent == ~HasColumn(before, args[1]) \/ ~HasColumn(before, args[2])

FlagCount == B2I(result.rep_issue) + B2I(result.label_issue) + B2I(result.fairness_issue)

Level(traffic) == IF traffic = "green" THEN 0 ELSE IF traffic = "yellow" THEN 1 ELSE 2

\* the three-flag vectors g that differ from f in one flag, false in f and true in g
OneFlagRaised(f, g) ==
    \E k \in 1..3 : ~f[k] /\ g[k] /\ \A m \in (1..3) \ {k} : f[m] = g[m]

\* rows of the sensitive column of the frame after the call that hold the value v
RowsOf(v) == {i \in 1..NRows(df) : Cells(df, args[1])[i] = v}

NonMissing == {i \in 1..NRows(df) : Cells(df, args[1])[i] # NA}

\* the distinct values of the sensitive column
Groups == {Cells(df, args[1])[i] : i \in NonMissing}

\* the rows of the value v whose target cell, as used, is not missing
Valued(v) == {i \in RowsOf(v) : Cells(df, args[2])[i] # NA}

RECURSIVE SumOver(_, _)
SumOver(col, rows) ==
    IF rows = {} THEN 0
    ELSE LET i == CHOOSE r \in rows : TRUE IN col[i][2] + SumOver(col, rows \ {i})

\* the group means of the report that are numbers, and their extremes
MeanValues == {result.label_dist[k].value : k \in 1..Len(result.label_dist)} \ {NaN}

MinMean == IF MeanValues = {} THEN NaN ELSE CHOOSE m \in MeanValues : \A o \in MeanValues : ~Lt(o, m)

MaxMean == IF MeanValues = {} THEN NaN ELSE CHOOSE m \in MeanValues : \A o \in MeanValues : ~Gt(o, m)

(***************************************************************************)
(* C1: bias_analysis leaves the caller's dataset as it was: after a call   *)
(* every column of the caller-held table has the same values as before.    *)
(* The code assigns the factorized codes to df[target] on the caller's     *)
(* object, so this fails for a text target.                                *)
(***************************************************************************)
C1_NoMutation == Called => SameValues(before, df)

(***************************************************************************)
(* C2: two calls in a row on the same dataset object with the same columns *)
(* return identical reports, target_encoded included.                      *)
(***************************************************************************)
C2_Repeatable ==
    (Returned /\ prev.result.kind = "report" /\ prev.args = args) => result = prev.result

(***************************************************************************)
(* C3 as stated: for an empty dataset, an absent column or a sensitive     *)
(* column without a distinct value the call raises InvalidInputError.      *)
(***************************************************************************)
C3_RaisesInvalidInputError ==
    (Called /\ InvalidInput) => (Failed /\ result.exc = "InvalidInputError")

(***************************************************************************)
(* C3 amended: for such input the call raises and returns no report: a     *)
(* KeyError when a column name is absent, a ValueError otherwise.          *)
(***************************************************************************)
C3_RaisesAndReturnsNoReport ==
    (Called /\ InvalidInput) =>
        /\ Failed
        /\ result.exc = IF ColumnAbsent THEN "KeyError" ELSE "ValueError"

C3_Witness ==
    /\ Failed
    /\ NRows(before) > 0
    /\ ~ColumnAbsent
    /\ result.exc = "ValueError"

(***************************************************************************)
(* C4: a failing call is atomic: it fails before anything is computed, so  *)
(* the dataset holds the same cells as before the call.  (The fields the   *)
(* code has set in its local report when it raises are result.computed.)   *)
(***************************************************************************)
C4_FailsAtomically == Failed => SameValues(before, df)

(***************************************************************************)
(* C5: the risk level of a returned report depends only on the number of   *)
(* true flags: 0 green/LOW, 1 yellow/MODERATE, 2 or 3 red/HIGH, on the     *)
(* page as in the report; raising one flag never lowers the level.         *)
(***************************************************************************)
C5_RiskFromFlagCount ==
    Returned =>
        /\ result.traffic = IF FlagCount = 0 THEN "green"
                            ELSE IF FlagCount = 1 THEN "yellow" ELSE "red"
        /\ caller = "dashboard" =>
              banner = IF FlagCount = 0 THEN "LOW RISK"
                       ELSE IF FlagCount = 1 THEN "MODERATE RISK" ELSE "HIGH RISK"
        /\ \A f, g \in [1..3 -> BOOLEAN] :
              OneFlagRaised(f, g) =>
                  Level(Traffic(Issues(f[1], f[2], f[3])))
                      <= Level(Traffic(Issues(g[1], g[2], g[3])))

C5_Witness ==
    /\ Returned
    /\ caller = "dashboard"
    /\ result.rep_issue /\ ~result.label_issue /\ ~result.fairness_issue
    /\ banner = "MODERATE RISK"

(***************************************************************************)
(* C6: every valid input returns a report, and its di is the float         *)
(* quotient min mean / max mean when the max mean is above 0 and exactly 1 *)
(* otherwise.                                                              *)
(***************************************************************************)
C6_DisparateImpact ==
    /\ (Called /\ ~InvalidInput) => Returned
    /\ Returned =>
          result.di = IF Gt(MaxMean, Zero) THEN Div(MinMean, MaxMean) ELSE One

C6_Witness ==
    /\ Returned
    /\ MaxMean = Zero
    /\ Lt(MinMean, Zero)
    /\ result.di = One

(***************************************************************************)
(* C7: spd is the float difference max mean - min mean, and                *)
(* fairness_issue holds exactly when spd is above 0.1 or di is below 0.8;  *)
(* with spd at 0.1 and di at 0.8 it is false.                              *)
(***************************************************************************)
C7_FairnessFlag ==
    Returned =>
        /\ result.spd = Sub(MaxMean, MinMean)
        /\ result.fairness_issue <=>
              (Gt(result.spd, SPD_THRESHOLD) \/ Lt(result.di, DI_THRESHOLD))
        /\ (~Gt(result.spd, SPD_THRESHOLD) /\ result.di = DI_THRESHOLD) => ~result.fairness_issue

C7_Witness ==
    /\ Returned
    /\ Len(result.label_dist) = 2
    /\ result.di = DI_THRESHOLD
    /\ ~Gt(result.spd, SPD_THRESHOLD)
    /\ ~result.fairness_issue

(***************************************************************************)
(* C8: dominant_ratio is the largest proportion among the distinct values  *)
(* of the sensitive column and the proportion of dominant_group; rep_issue *)
(* holds exactly when it is above 0.7, that is when the group has more     *)
(* than 7 in 10 of the counted rows (exactly 70% does not set it).         *)
(***************************************************************************)
C8_DominantGroup ==
    Returned =>
        /\ result.dominant_group \in Groups
        /\ result.dominant_ratio
              = Ratio(Cardinality(RowsOf(result.dominant_group)), Cardinality(NonMissing))
        /\ \A v \in Groups :
              Cardinality(RowsOf(v)) <= Cardinality(RowsOf(result.dominant_group))
        /\ result.rep_issue <=> Gt(result.dominant_ratio, REP_THRESHOLD)
        /\ result.rep_issue <=>
              10 * Cardinality(RowsOf(result.dominant_group)) > 7 * Cardinality(NonMissing)

C8_Witness ==
    /\ Returned
    /\ 10 * Cardinality(RowsOf(result.dominant_group)) = 7 * Cardinality(NonMissing)
    /\ result.dominant_ratio = REP_THRESHOLD
    /\ ~result.rep_issue

(***************************************************************************)
(* C9: target_encoded holds exactly for a target column with a text cell   *)
(* (a non-numeric column); then the statistics are computed on integer     *)
(* codes given to the values in order of first appearance (0, 1, ...),     *)
(* equal values getting equal codes and a missing cell the code -1; a      *)
(* numeric target is used unchanged.  Each group mean is the float         *)
(* quotient of the sum by the number of the cells used.                    *)
(***************************************************************************)
C9_TargetEncoding ==
    Returned =>
        LET old == Cells(before, args[2])
            used == Cells(df, args[2])
            n == NRows(before)
            valued == {i \in 1..NRows(before) : Cells(before, args[2])[i] # NA}
        IN  /\ result.target_encoded <=> (\E i \in 1..n : old[i][1] = "s")
            /\ Len(used) = n
            /\ result.target_encoded =>
                  /\ \A i \in 1..n : old[i] = NA <=> used[i] = Num(-1)
                  /\ \A i \in valued : \A j \in valued : (used[i] = used[j]) <=> (old[i] = old[j])
                  /\ \A i \in valued :
                        /\ used[i][2] >= 0
                        /\ used[i][2] > 0 =>
                              \E j \in valued : j < i /\ used[j][2] = used[i][2] - 1
            /\ ~result.target_encoded => used = old
            /\ {result.label_dist[k].key : k \in 1..Len(result.label_dist)} = Groups
            /\ \A k \in 1..Len(result.label_dist) :
                  LET e == result.label_dist[k]
                  IN  e.value = IF Valued(e.key) = {} THEN NaN
                                ELSE Ratio(SumOver(used, Valued(e.key)), Cardinality(Valued(e.key)))

C9_Witness ==
    /\ Returned
    /\ result.target_encoded
    /\ Cells(before, args[2]) = <<Text("yes"), Text("no")>>
    /\ Len(result.label_dist) = 2

(***************************************************************************)
(* C10: label_issue implies fairness_issue, so label_issue is never the    *)
(* only true flag: with it the level is red, and yellow comes only from    *)
(* rep_issue alone or fairness_issue alone.                                *)
(***************************************************************************)
C10_LabelImpliesFairness ==
    Returned =>
        /\ result.label_issue => (result.fairness_issue /\ result.traffic = "red")
        /\ result.traffic = "yellow" =>
              /\ ~result.label_issue
              /\ result.rep_issue # result.fairness_issue

C10_Witness ==
    /\ Returned
    /\ result.label_issue
    /\ ~result.rep_issue
    /\ result.traffic = "red"

====
